---- MODULE Spec2Model ----
(***************************************************************************)
(* A model of the socket handler of the streaming server                   *)
(* (pkg/socket/handler.go and the util package it calls).                  *)
(*                                                                         *)
(* Every connection is served by its own goroutine: the handlers of one    *)
(* connection run one after the other, the handlers of different           *)
(* connections and the tick loops of the rooms interleave.  A handler that *)
(* reads shared state and writes it later is split at that point.          *)
(*                                                                         *)
(* The packages client, playback, cmd and validation are not part of the   *)
(* sources at hand; what the handler needs of them is modelled from the    *)
(* design document (section 4).                                            *)
(***************************************************************************)
EXTENDS Integers, Sequences, FiniteSets, TLC

(***************************************************************************)
(* Bounds of the model.                                                    *)
(***************************************************************************)
\* number of connections the transport accepts in one behaviour
NumConns == 2
\* the tick loop of a room stops at this position
MaxPosition == 61

\* handler.go:29
ROOM_DEFAULT_STREAMSYNC_RATE == 30

ConnIds == 1..NumConns

(***************************************************************************)
(* Strings are sequences of one-character strings, so that indexing,       *)
(* slicing and strings.Split are computed and not assumed.                 *)
(***************************************************************************)
\* handler.go:28
ROOM_DEFAULT_LOBBY == <<"l", "o", "b", "b", "y">>
\* util: const ROOM_URL_SEGMENT = "/v/"
ROOM_URL_SEGMENT == <<"/", "v", "/">>

HasPrefixAt(s, sep, i) ==
    /\ i + Len(sep) - 1 <= Len(s)
    /\ SubSeq(s, i, i + Len(sep) - 1) = sep

\* strings.Index, 1-based; 0 when sep does not occur
Index(s, sep) ==
    LET hits == {i \in 1..Len(s) : HasPrefixAt(s, sep, i)}
    IN  IF hits = {} THEN 0 ELSE CHOOSE i \in hits : \A j \in hits : i <= j

\* strings.Split for a non-empty separator
RECURSIVE Split(_, _)
Split(s, sep) ==
    LET j == Index(s, sep)
    IN  IF j = 0
        THEN <<s>>
        ELSE <<SubSeq(s, 1, j - 1)>> \o Split(SubSeq(s, j + Len(sep), Len(s)), sep)

(***************************************************************************)
(* util.GetRoomNameFromRequest and the room a connection is assigned.      *)
(***************************************************************************)
GetRoomNameFromRequest(url) ==
    LET segs == Split(url, ROOM_URL_SEGMENT)
    IN  IF Len(segs) > 1
        THEN [err |-> FALSE, name |-> segs[2]]
        ELSE [err |-> TRUE, name |-> <<>>]

\* RegisterClient, lines 191-195
RoomOfRequest(url) ==
    LET r == GetRoomNameFromRequest(url)
    IN  IF r.err THEN ROOM_DEFAULT_LOBBY ELSE r.name

\* the request URLs connections arrive with
UrlRoomX == <<"/", "v", "/", "x">>
UrlNoRoom == <<"/">>
Urls == {UrlRoomX, UrlNoRoom}
\* and those whose room segment is missing: "/v/" with nothing after it,
\* and "/v" with no closing slash
UrlEmptyRoom == <<"/", "v", "/">>
UrlNoSlash == <<"/", "v">>
RequestUrls == Urls \cup {UrlEmptyRoom, UrlNoSlash}
RoomNames == {RoomOfRequest(u) : u \in RequestUrls}
NoRoom == <<"-">>


(***************************************************************************)
(* The state.                                                              *)
(***************************************************************************)
VARIABLES
    conn,       \* transport: connection id -> "new" | "open" | "closed"
    clients,    \* Client Registry: the ids of the registered clients
    username,   \* Client.username, "" when the client has none
    room,       \* Client.room, NoRoom before JoinRoom
    pc,         \* where the goroutine of a connection stands
    found,      \* RegisterClient: the result of the lookup of line 206
    reqName,    \* UpdateClientUsername: the name asked for
    result,     \* the outcome of the last username request of a connection
    playbacks,  \* Room Playback Engine: room name -> Playback State
    hist,       \* history of a room: the position last set and the ticks since
    out,        \* the broadcast calls of the last step, in order
    last,       \* the last step: handler, connection, outcome, input
    panicked    \* a handler panicked: the process is gone

vars == <<conn, clients, username, room, pc, found, reqName, result,
          playbacks, hist, out, last, panicked>>

NoStream == ""
NoExtra == [stream |-> NoStream, pos |-> -1, playing |-> FALSE]
NoData == [kind |-> "none", text |-> <<>>]

FreshPlayback ==
    [exists |-> TRUE, stream |-> NoStream, pos |-> 0, playing |-> FALSE,
     callbacks |-> <<>>]
NoPlayback == [FreshPlayback EXCEPT !.exists = FALSE]
FreshHist == [base |-> 0, ticks |-> 0]

Step(op, c, outcome, data, r, fnd, hadStream) ==
    [op |-> op, c |-> c, outcome |-> outcome, data |-> data, r |-> r,
     found |-> fnd, hadStream |-> hadStream, isCommand |-> FALSE,
     name |-> <<>>, args |-> <<>>]

Init ==
    /\ conn = [c \in ConnIds |-> "new"]
    /\ clients = {}
    /\ username = [c \in ConnIds |-> ""]
    /\ room = [c \in ConnIds |-> NoRoom]
    /\ pc = [c \in ConnIds |-> "idle"]
    /\ found = [c \in ConnIds |-> FALSE]
    /\ reqName = [c \in ConnIds |-> ""]
    /\ result = [c \in ConnIds |-> "none"]
    /\ playbacks = [r \in RoomNames |-> NoPlayback]
    /\ hist = [r \in RoomNames |-> FreshHist]
    /\ out = <<>>
    /\ last = Step("init", 0, "", NoData, NoRoom, FALSE, FALSE)
    /\ panicked = FALSE

(***************************************************************************)
(* Client Registry and Broadcast Router (package client, modelled from     *)
(* sections 4.1 and 4.3 of the design document).  A broadcast call is      *)
(* recorded with the clients it is delivered to: reg is the registry and   *)
(* rm the room of every client at the moment of the call.                  *)
(***************************************************************************)
Call(kind, evt, by, rcpts, extra, text) ==
    [kind |-> kind, evt |-> evt, by |-> by, rcpts |-> rcpts,
     extra |-> extra, text |-> text]

\* Client.GetUsername: the name and whether the client has one
HasUsername(c) == username[c] # ""

\* get(connectionId): whether the registry holds a client for the connection
GetClient(reg, c) == c \in reg

\* A handler that goes on to call a method of what a failed lookup returned
\* calls it on a nil pointer: the method dereferences it and the process
\* panics, or the method tolerates a nil receiver and returns.
NilCall == {"panic", "tolerated"}

\* toClient: exactly one client, if its connection is still registered
BroadcastTo(reg, rm, c, evt, extra, text) ==
    Call("to", evt, c, {c} \cap reg, extra, text)

\* toRoomExceptSender: a no-op when the sender has no room
BroadcastFrom(reg, rm, c, evt, extra, text) ==
    Call("from", evt, c,
         IF rm[c] = NoRoom THEN {} ELSE {d \in reg : rm[d] = rm[c]} \ {c},
         extra, text)

\* toRoom, of the room of c
BroadcastAll(reg, rm, c, evt, extra, text) ==
    Call("all", evt, c,
         IF rm[c] = NoRoom THEN {} ELSE {d \in reg : rm[d] = rm[c]},
         extra, text)

\* toSenderAsSystem
BroadcastSystemMessageTo(reg, rm, c, text) ==
    Call("system", "info_systemmessage", c, {c} \cap reg, NoExtra, text)

\* toSenderAsError
BroadcastErrorTo(reg, rm, c, text) ==
    Call("error", "info_clienterror", c, {c} \cap reg, NoExtra, text)

\* the clients an event of the last step was delivered to
Receivers(evt) ==
    UNION {out[i].rcpts : i \in {j \in 1..Len(out) : out[j].evt = evt}}
AllReceivers == UNION {out[i].rcpts : i \in 1..Len(out)}
Emitted(evt) == \E i \in 1..Len(out) : out[i].evt = evt

(***************************************************************************)
(* Room Playback Engine (package playback, modelled from section 4.2).     *)
(***************************************************************************)
\* get(roomName)
GetStreamPlayback(pbs, r) == pbs[r]

\* the creation path: the existing state, or a fresh, empty, paused one
NewStreamPlayback(pbs, r) ==
    IF pbs[r].exists THEN pbs ELSE [pbs EXCEPT ![r] = FreshPlayback]

\* onTick(roomName, callback): the callback is kept with the client it closes over
OnTick(pbs, r, c) ==
    [pbs EXCEPT ![r].callbacks = Append(@, c)]

\* status(roomName)
GetStatus(p) == [stream |-> p.stream, pos |-> p.pos, playing |-> p.playing]

\* TickAdvance counting a tick twice
TickAdvanceTwice(pos) == pos + 2

\* one tick period adds one unit to the position
TickAdvance(pos) == pos + 1


(***************************************************************************)
(* Handler.RegisterClient, run by the "connection" event.  The lookup of   *)
(* the room's Playback State (line 206) and its creation (lines 209-225)   *)
(* are two steps: the handler holds no lock between them.                  *)
(***************************************************************************)
\* lines 202-204
ClientJoined(reg, rm, c) ==
    <<BroadcastFrom(reg, rm, c, "info_clientjoined", NoExtra, "")>>

\* OnTickCallback with the cadence one tick early
OnTickCallbackEarly(reg, rm, pbs, c, roomName, currentTime) ==
    IF (currentTime + 1) % ROOM_DEFAULT_STREAMSYNC_RATE # 0
    THEN <<>>
    ELSE <<BroadcastAll(reg, rm, c, "streamsync",
                        GetStatus(GetStreamPlayback(pbs, roomName)), "")>>

\* OnTickCallback sending the snapshot to the client it closes over only
OnTickCallbackToCreator(reg, rm, pbs, c, roomName, currentTime) ==
    IF currentTime % ROOM_DEFAULT_STREAMSYNC_RATE # 0
    THEN <<>>
    ELSE <<BroadcastTo(reg, rm, c, "streamsync",
                       GetStatus(GetStreamPlayback(pbs, roomName)), "")>>

\* lines 210-225: the tick callback of a room, closed over the client c
\* whose connection created the room's Playback State
OnTickCallback(reg, rm, pbs, c, roomName, currentTime) ==
    IF currentTime % ROOM_DEFAULT_STREAMSYNC_RATE # 0
    THEN <<>>
    ELSE <<BroadcastAll(reg, rm, c, "streamsync",
                        GetStatus(GetStreamPlayback(pbs, roomName)), "")>>

\* CreateRoomPlayback leaving the new state playing
CreateRoomPlaybackPlaying(pbs, roomName, c) ==
    [OnTick(NewStreamPlayback(pbs, roomName), roomName, c)
        EXCEPT ![roomName].playing = TRUE]

\* lines 207-228: the room had no Playback State at the lookup
CreateRoomPlayback(pbs, roomName, c) ==
    OnTick(NewStreamPlayback(pbs, roomName), roomName, c)

\* StreamLoadCatchUp sending nothing
StreamLoadCatchUpNone(reg, rm, c, sPlayback) == <<>>

\* StreamLoadCatchUp sending the event to the whole room
StreamLoadCatchUpToRoom(reg, rm, c, sPlayback) ==
    IF sPlayback.stream # NoStream
    THEN <<BroadcastAll(reg, rm, c, "streamload",
                        [NoExtra EXCEPT !.stream = sPlayback.stream], "")>>
    ELSE <<>>

\* lines 232-239: the catch-up of a client that joins an existing room
StreamLoadCatchUp(reg, rm, c, sPlayback) ==
    IF sPlayback.stream # NoStream
    THEN <<BroadcastTo(reg, rm, c, "streamload",
                       [NoExtra EXCEPT !.stream = sPlayback.stream], "")>>
    ELSE <<>>

\* the URL of the connecting request, as kept with the step
UrlData(url) == [kind |-> "url", text |-> url]

\* lines 189-206
RegisterLookup(c, url) ==
    LET roomName == RoomOfRequest(url)
        reg == clients \cup {c}
        rm == [room EXCEPT ![c] = roomName]
        sPlayback == GetStreamPlayback(playbacks, roomName)
    IN  /\ ~panicked
        /\ conn[c] = "new"
        /\ conn' = [conn EXCEPT ![c] = "open"]
        /\ clients' = reg
        /\ room' = rm
        /\ out' = ClientJoined(reg, rm, c)
        /\ found' = [found EXCEPT ![c] = sPlayback.exists]
        /\ pc' = [pc EXCEPT ![c] = "register"]
        /\ last' = Step("lookup", c, "", UrlData(url), roomName,
                        sPlayback.exists, sPlayback.stream # NoStream)
        /\ UNCHANGED <<username, reqName, result, playbacks, hist, panicked>>

\* lines 207-240
RegisterFinish(c) ==
    LET roomName == room[c]
        sPlayback == GetStreamPlayback(playbacks, roomName)
    IN  /\ ~panicked
        /\ pc[c] = "register"
        /\ pc' = [pc EXCEPT ![c] = "idle"]
        /\ IF ~found[c]
           THEN /\ playbacks' = CreateRoomPlayback(playbacks, roomName, c)
                /\ out' = <<>>
           ELSE /\ playbacks' = playbacks
                /\ out' = StreamLoadCatchUp(clients, room, c, sPlayback)
        /\ last' = Step("register", c, "", NoData, roomName, found[c],
                        sPlayback.stream # NoStream)
        /\ UNCHANGED <<conn, clients, username, room, found, reqName, result,
                       hist, panicked>>

(***************************************************************************)
(* The "disconnection" handler, lines 39-56, and DeregisterClient.         *)
(***************************************************************************)
\* lines 242-248; DestroyClient removes the client from the registry
DeregisterClient(reg, c) == reg \ {c}

\* ClientLeft run after DeregisterClient: GetClient no longer finds the client
ClientLeftAfterRemoval(reg, rm, c) ==
    IF c \in DeregisterClient(reg, c) /\ HasUsername(c)
    THEN <<BroadcastFrom(reg, rm, c, "info_clientleft", NoExtra, username[c])>>
    ELSE <<>>

\* lines 42-50
ClientLeft(reg, rm, c) ==
    IF c \in reg /\ HasUsername(c)
    THEN <<BroadcastFrom(reg, rm, c, "info_clientleft", NoExtra, username[c])>>
    ELSE <<>>

Disconnection(c) ==
    /\ ~panicked
    /\ conn[c] # "new"
    /\ pc[c] = "idle"
    /\ out' = ClientLeft(clients, room, c)
    /\ clients' = DeregisterClient(clients, c)
    /\ conn' = [conn EXCEPT ![c] = "closed"]
    /\ last' = Step("disconnection", c,
                    IF GetClient(clients, c) THEN "" ELSE "no client",
                    NoData, room[c], FALSE, FALSE)
    /\ UNCHANGED <<username, room, pc, found, reqName, result, playbacks,
                   hist, panicked>>


(***************************************************************************)
(* The "request_updateusername" handler, lines 58-77, and                  *)
(* util.UpdateClientUsername.  The function is not concurrency-safe (its   *)
(* own TODO): the scan of the other clients' names and the write of the    *)
(* new name are two steps.                                                 *)
(***************************************************************************)
NoErr == ""
ErrInvalidUsername == "error: invalid username"
ErrSameUsername == "error: you already have that username"
ErrUsernameTaken == "error: the username is taken"
\* the error of a lookup in the registry that finds no client
ErrNoClient == "error: client not found"

\* validation.ValidateClientUsername: non-empty, restricted characters, bounded length
ValidUsernames == {"bob", "al"}
ValidateClientUsername(name) ==
    IF name \in ValidUsernames THEN NoErr ELSE ErrInvalidUsername

\* the "user" field of a request: absent, or a string
UsernameRequests ==
    {[has |-> FALSE, user |-> ""], [has |-> TRUE, user |-> ""],
     [has |-> TRUE, user |-> "bob"], [has |-> TRUE, user |-> "al"]}

\* the name a username request asks for, as kept with the step
UsernameData(name) == [kind |-> "user", text |-> <<name>>]

\* UsernameCheck without the scan of the other clients' names
UsernameCheckNoScan(reg, c, name) ==
    IF ValidateClientUsername(name) # NoErr
    THEN ValidateClientUsername(name)
    ELSE IF HasUsername(c) /\ username[c] = name
    THEN ErrSameUsername
    ELSE NoErr

\* UpdateClientUsername, lines 20-42: validation, the client's own name, the scan
UsernameCheck(reg, c, name) ==
    IF ValidateClientUsername(name) # NoErr
    THEN ValidateClientUsername(name)
    ELSE IF HasUsername(c) /\ username[c] = name
    THEN ErrSameUsername
    ELSE IF \E otherUser \in reg :
                HasUsername(otherUser) /\ name = username[otherUser]
    THEN ErrUsernameTaken
    ELSE NoErr

\* UpdateClientUsername, lines 54-72
UsernameUpdated(reg, rm, c, name, prevName) ==
    <<BroadcastTo(reg, rm, c, "updateusername", NoExtra, name),
      BroadcastFrom(reg, rm, c, "info_updateusername", NoExtra, name)>>

\* UsernameError sending the error to the whole room
UsernameErrorToRoom(reg, rm, c, err) ==
    <<BroadcastAll(reg, rm, c, "info_clienterror", NoExtra, err)>>

\* handler lines 72-76
UsernameError(reg, rm, c, err) == <<BroadcastErrorTo(reg, rm, c, err)>>

\* lines 58-72 of the handler and 20-42 of UpdateClientUsername
RequestUpdateUsername(c, data) ==
    LET err == UsernameCheck(clients, c, data.user)
    IN  /\ ~panicked
        /\ conn[c] # "new"
        /\ pc[c] = "idle"
        /\ IF ~data.has
           THEN /\ out' = <<>>
                /\ last' = Step("updateusername", c, "malformed", NoData,
                                room[c], FALSE, FALSE)
                /\ UNCHANGED <<pc, reqName, result, panicked>>
           ELSE IF ~GetClient(clients, c)
           THEN \* lines 65-70: c.BroadcastErrorTo on the client not found
                /\ \E how \in NilCall :
                    /\ panicked' = (how = "panic")
                    /\ out' = IF how = "panic"
                              THEN <<>>
                              ELSE UsernameError(clients, room, c, ErrNoClient)
                /\ last' = Step("updateusername", c, "no client",
                                UsernameData(data.user), room[c], FALSE, FALSE)
                /\ UNCHANGED <<pc, reqName, result>>
           ELSE IF err # NoErr
           THEN /\ out' = UsernameError(clients, room, c, err)
                /\ result' = [result EXCEPT ![c] = err]
                /\ last' = Step("updateusername", c, err,
                                UsernameData(data.user), room[c], FALSE, FALSE)
                /\ UNCHANGED <<pc, reqName, panicked>>
           ELSE /\ out' = <<>>
                /\ pc' = [pc EXCEPT ![c] = "rename"]
                /\ reqName' = [reqName EXCEPT ![c] = data.user]
                /\ last' = Step("updateusername", c, "scanned",
                                UsernameData(data.user), room[c], FALSE, FALSE)
                /\ UNCHANGED <<result, panicked>>
        /\ UNCHANGED <<conn, clients, username, room, found, playbacks, hist>>

\* UpdateClientUsername, lines 44-75: Client.UpdateUsername and the two events
UpdateUsernameWrite(c) ==
    LET names == [username EXCEPT ![c] = reqName[c]]
    IN  /\ ~panicked
        /\ pc[c] = "rename"
        /\ username' = names
        /\ out' = UsernameUpdated(clients, room, c, reqName[c], username[c])
        /\ result' = [result EXCEPT ![c] = "ok"]
        /\ reqName' = [reqName EXCEPT ![c] = ""]
        /\ pc' = [pc EXCEPT ![c] = "idle"]
        /\ last' = Step("updateusername", c, "ok", UsernameData(reqName[c]),
                        room[c], FALSE, FALSE)
        /\ UNCHANGED <<conn, clients, room, found, playbacks, hist, panicked>>


(***************************************************************************)
(* Command Dispatcher (package cmd, modelled from section 4.4) and the     *)
(* commands of the Room Playback Engine (section 4.2).                     *)
(***************************************************************************)
CmdPlay == <<"p", "l", "a", "y">>
CmdPause == <<"p", "a", "u", "s", "e">>
CmdSeek == <<"s", "e", "e", "k">>
CmdLoad == <<"l", "o", "a", "d">>
Commands == {CmdPlay, CmdPause, CmdSeek, CmdLoad}

ErrUnknownCommand == "error: unknown command"
ErrNoActiveStream == "error: no active stream"
ErrInvalidArgument == "error: invalid argument"
ErrUpstreamFailure == "error: unable to resolve stream"
ErrNoPlayback == "error: no playback for room"

Digits == <<"0", "1", "2", "3", "4", "5", "6", "7", "8", "9">>
IsDigit(ch) == \E i \in 1..10 : Digits[i] = ch
DigitValue(ch) == (CHOOSE i \in 1..10 : Digits[i] = ch) - 1

\* the decimal value of a token, -1 when it is no number
RECURSIVE ParseInt(_)
ParseInt(tok) ==
    IF Len(tok) = 0 \/ \E i \in 1..Len(tok) : ~IsDigit(tok[i])
    THEN -1
    ELSE IF Len(tok) = 1
    THEN DigitValue(tok[1])
    ELSE 10 * ParseInt(SubSeq(tok, 1, Len(tok) - 1)) + DigitValue(tok[Len(tok)])

\* Stream Resolver: identifier -> stream descriptor, NoStream when it fails
ResolveStream(id) == IF id = <<"s">> THEN "S1" ELSE NoStream

\* ExecuteCommand with a play that does not ask for a loaded stream
ExecuteCommandPlayAlways(name, args, c, rm, pbs, text) ==
    LET r == rm[c]
        failed(e) == [err |-> e, result |-> "", pbs |-> pbs, setpos |-> FALSE]
        done(p, sp) == [err |-> NoErr, result |-> text,
                        pbs |-> [pbs EXCEPT ![r] = p], setpos |-> sp]
    IN  IF name \notin Commands
        THEN failed(ErrUnknownCommand)
        ELSE IF r = NoRoom \/ ~pbs[r].exists
        THEN failed(ErrNoPlayback)
        ELSE IF name = CmdPlay
        THEN done([pbs[r] EXCEPT !.playing = TRUE], FALSE)
        ELSE IF name = CmdPause
        THEN done([pbs[r] EXCEPT !.playing = FALSE], FALSE)
        ELSE IF name = CmdSeek
        THEN IF Len(args) # 1 \/ ParseInt(args[1]) < 0
             THEN failed(ErrInvalidArgument)
             ELSE IF pbs[r].stream = NoStream
             THEN failed(ErrNoActiveStream)
             ELSE done([pbs[r] EXCEPT !.pos = ParseInt(args[1])], TRUE)
        ELSE IF Len(args) # 1
        THEN failed(ErrInvalidArgument)
        ELSE IF ResolveStream(args[1]) = NoStream
        THEN failed(ErrUpstreamFailure)
        ELSE done([pbs[r] EXCEPT !.stream = ResolveStream(args[1]), !.pos = 0],
                  TRUE)

\* execute(commandName, args, client, ...): the error, the result text, the
\* Playback States after the command and whether it set the position.
\* text is the result text the command's handler returns when it succeeds.
ExecuteCommand(name, args, c, rm, pbs, text) ==
    LET r == rm[c]
        failed(e) == [err |-> e, result |-> "", pbs |-> pbs, setpos |-> FALSE]
        done(p, sp) == [err |-> NoErr, result |-> text,
                        pbs |-> [pbs EXCEPT ![r] = p], setpos |-> sp]
    IN  IF name \notin Commands
        THEN failed(ErrUnknownCommand)
        ELSE IF r = NoRoom \/ ~pbs[r].exists
        THEN failed(ErrNoPlayback)
        ELSE IF name = CmdPlay
        THEN IF pbs[r].stream = NoStream
             THEN failed(ErrNoActiveStream)
             ELSE done([pbs[r] EXCEPT !.playing = TRUE], FALSE)
        ELSE IF name = CmdPause
        THEN done([pbs[r] EXCEPT !.playing = FALSE], FALSE)
        ELSE IF name = CmdSeek
        THEN IF Len(args) # 1 \/ ParseInt(args[1]) < 0
             THEN failed(ErrInvalidArgument)
             ELSE IF pbs[r].stream = NoStream
             THEN failed(ErrNoActiveStream)
             ELSE done([pbs[r] EXCEPT !.pos = ParseInt(args[1])], TRUE)
        ELSE IF Len(args) # 1
        THEN failed(ErrInvalidArgument)
        ELSE IF ResolveStream(args[1]) = NoStream
        THEN failed(ErrUpstreamFailure)
        ELSE done([pbs[r] EXCEPT !.stream = ResolveStream(args[1]), !.pos = 0],
                  TRUE)

(***************************************************************************)
(* The "request_chatmessage" handler, lines 79-128, and                    *)
(* Handler.ParseCommandMessage, lines 165-181.                             *)
(***************************************************************************)
ErrMessageFieldEmpty == "error: invalid client command format; message field empty"
ErrMessageNotString == "error: client command parse error; unable to cast message to string"

\* the data map of a chat message: no "message" field, a "message" that is
\* no string, or a text
TextMessage(t) == [kind |-> "text", text |-> t]
MissingMessage == [kind |-> "missing", text |-> <<>>]
NonStringMessage == [kind |-> "nonstring", text |-> <<>>]

\* ParseCommandMessage: error, command, isCommand; command[0] of an empty
\* string is an index out of range, which panics
ParseCommandMessage(data) ==
    LET ret(e, cmd, is, pan) ==
            [err |-> e, command |-> cmd, isCommand |-> is, panics |-> pan]
    IN  IF data.kind = "missing"
        THEN ret(ErrMessageFieldEmpty, <<>>, FALSE, FALSE)
        ELSE IF data.kind # "text"
        THEN ret(ErrMessageNotString, <<>>, FALSE, FALSE)
        ELSE IF Len(data.text) = 0
        THEN ret(NoErr, <<>>, FALSE, TRUE)
        ELSE IF data.text[1] # "/"
        THEN ret(NoErr, <<>>, FALSE, FALSE)
        ELSE ret(NoErr, Tail(data.text), TRUE, FALSE)

\* lines 99-103: the command name and its arguments
CommandSegments(command) == Split(command, <<" ">>)
CommandArgs(cmdSegments) ==
    IF Len(cmdSegments) > 1 THEN Tail(cmdSegments) ELSE <<>>

\* lines 92-96
OnParseError(reg, rm, c, err) == <<BroadcastSystemMessageTo(reg, rm, c, err)>>
\* OnCommandError sending the failure to the whole room
OnCommandErrorToRoom(reg, rm, c, err) ==
    <<BroadcastAll(reg, rm, c, "info_systemmessage", NoExtra, err)>>

\* lines 107-111
OnCommandError(reg, rm, c, err) == <<BroadcastSystemMessageTo(reg, rm, c, err)>>
\* lines 113-116
OnCommandResult(reg, rm, c, res) ==
    IF res # "" THEN <<BroadcastSystemMessageTo(reg, rm, c, res)>> ELSE <<>>
\* OnChatText delivering the message to every registered client
OnChatTextToEveryone(reg, rm, c) ==
    <<Call("all", "chatmessage", c, reg, NoExtra, "")>>

\* lines 124-125
OnChatText(reg, rm, c) ==
    <<BroadcastAll(reg, rm, c, "chatmessage", NoExtra, "")>>

\* the history of a room after a command that succeeded
HistAfter(h, p, setpos) ==
    IF setpos THEN [base |-> p.pos, ticks |-> 0] ELSE h

RequestChatMessage(c, data, text) ==
    LET parsed == ParseCommandMessage(data)
        cmdSegments == CommandSegments(parsed.command)
        exec == ExecuteCommand(cmdSegments[1], CommandArgs(cmdSegments), c,
                               room, playbacks, text)
        r == room[c]
        step(outcome) ==
            [Step("chatmessage", c, outcome, data, r, FALSE, FALSE) EXCEPT
                !.isCommand = ~parsed.panics /\ parsed.isCommand,
                !.name = IF ~parsed.panics /\ parsed.isCommand
                         THEN cmdSegments[1] ELSE <<>>,
                !.args = IF ~parsed.panics /\ parsed.isCommand
                         THEN CommandArgs(cmdSegments) ELSE <<>>]
    IN  /\ ~panicked
        /\ conn[c] # "new"
        /\ pc[c] = "idle"
        /\ IF ~GetClient(clients, c)
           THEN \* lines 85-89
                /\ out' = <<>>
                /\ last' = Step("chatmessage", c, "no client", data, r,
                                FALSE, FALSE)
                /\ UNCHANGED <<playbacks, hist, panicked>>
           ELSE IF parsed.panics
           THEN /\ panicked' = TRUE
                /\ out' = <<>>
                /\ last' = step("panic")
                /\ UNCHANGED <<playbacks, hist>>
           ELSE IF parsed.err # NoErr
           THEN /\ out' = OnParseError(clients, room, c, parsed.err)
                /\ last' = step("parse error")
                /\ UNCHANGED <<playbacks, hist, panicked>>
           ELSE IF ~parsed.isCommand
           THEN /\ out' = OnChatText(clients, room, c)
                /\ last' = step("chat")
                /\ UNCHANGED <<playbacks, hist, panicked>>
           ELSE IF exec.err # NoErr
           THEN /\ out' = OnCommandError(clients, room, c, exec.err)
                /\ last' = step("command error")
                /\ UNCHANGED <<playbacks, hist, panicked>>
           ELSE /\ out' = OnCommandResult(clients, room, c, exec.result)
                /\ playbacks' = exec.pbs
                /\ hist' = [hist EXCEPT
                               ![r] = HistAfter(@, exec.pbs[r], exec.setpos)]
                /\ last' = step("command")
                /\ UNCHANGED panicked
        /\ UNCHANGED <<conn, clients, username, room, pc, found, reqName,
                       result>>


(***************************************************************************)
(* The "request_streamsync" handler, lines 130-154.                        *)
(***************************************************************************)
\* StreamsyncReply sending the snapshot to the whole room
StreamsyncReplyToRoom(reg, rm, c, sPlayback) ==
    <<BroadcastAll(reg, rm, c, "streamsync", GetStatus(sPlayback), "")>>

\* lines 150-153
StreamsyncReply(reg, rm, c, sPlayback) ==
    <<BroadcastTo(reg, rm, c, "streamsync", GetStatus(sPlayback), "")>>

RequestStreamsync(c) ==
    LET roomName == room[c]
        sPlayback == GetStreamPlayback(playbacks, roomName)
        step(outcome, exists) ==
            Step("streamsync", c, outcome, NoData, roomName, exists, FALSE)
    IN  /\ ~panicked
        /\ conn[c] # "new"
        /\ pc[c] = "idle"
        /\ IF ~GetClient(clients, c)
           THEN \* lines 133-137
                /\ out' = <<>>
                /\ last' = step("no client", FALSE)
                /\ UNCHANGED panicked
           ELSE IF roomName = NoRoom
           THEN \* lines 139-143
                /\ out' = <<>>
                /\ last' = step("no room", FALSE)
                /\ UNCHANGED panicked
           ELSE IF ~sPlayback.exists
           THEN \* lines 145-153: sPlayback.GetStatus on the state not found
                /\ \E how \in NilCall :
                    /\ panicked' = (how = "panic")
                    /\ out' = IF how = "panic"
                              THEN <<>>
                              ELSE <<BroadcastTo(clients, room, c, "streamsync",
                                                 NoExtra, "")>>
                /\ last' = step("no playback", FALSE)
           ELSE /\ out' = StreamsyncReply(clients, room, c, sPlayback)
                /\ last' = step("", TRUE)
                /\ UNCHANGED panicked
        /\ UNCHANGED <<conn, clients, username, room, pc, found, reqName,
                       result, playbacks, hist>>

(***************************************************************************)
(* The tick loop of a room (section 4.2): while the play flag is set, one  *)
(* tick period advances the position by one and calls every registered     *)
(* callback with the new position.  The step is exclusive with the         *)
(* commands against the same room (section 5).                             *)
(***************************************************************************)
RECURSIVE RunCallbacks(_, _, _, _, _, _)
RunCallbacks(reg, rm, pbs, cbs, roomName, currentTime) ==
    IF cbs = <<>>
    THEN <<>>
    ELSE OnTickCallback(reg, rm, pbs, Head(cbs), roomName, currentTime)
         \o RunCallbacks(reg, rm, pbs, Tail(cbs), roomName, currentTime)

Tick(r) ==
    LET p == playbacks[r]
        pbs == [playbacks EXCEPT ![r].pos = TickAdvance(p.pos)]
    IN  /\ ~panicked
        /\ p.exists
        /\ p.playing
        /\ p.pos < MaxPosition
        /\ playbacks' = pbs
        /\ hist' = [hist EXCEPT ![r].ticks = @ + 1]
        /\ out' = RunCallbacks(clients, room, pbs, p.callbacks, r, pbs[r].pos)
        /\ last' = Step("tick", 0, "", NoData, r, TRUE, p.stream # NoStream)
        /\ UNCHANGED <<conn, clients, username, room, pc, found, reqName,
                       result, panicked>>

(***************************************************************************)
(* The specifications.  Next is the whole program: every handler of every  *)
(* connection and the tick loop of every room, interleaved.  The other     *)
(* specifications are Next with the inputs restricted to the part of the   *)
(* program a group of properties is about.                                 *)
(***************************************************************************)
\* the transport hands out connection ids in order
NextConn(c) == \A d \in ConnIds : d < c => conn[d] # "new"
AllIdle == \A c \in ConnIds : pc[c] = "idle"

Slash == <<"/">>
ChatTexts ==
    {<<>>, <<"h", "i">>, Slash, Slash \o CmdPlay, Slash \o CmdPause,
     Slash \o CmdLoad \o <<" ", "s">>, Slash \o CmdSeek \o <<" ", "2", "9">>,
     <<"/", "n", "o">>}
ChatInputs ==
    {TextMessage(t) : t \in ChatTexts} \cup {MissingMessage, NonStringMessage}
ResultTexts == {"", "ok"}

\* the transport delivers the events of a connection from its "connection"
\* event to its "disconnection" event
Live == {c \in ConnIds : conn[c] = "open"}

Connect(urls) ==
    \E c \in ConnIds, url \in urls : NextConn(c) /\ RegisterLookup(c, url)
Registered == \E c \in ConnIds : RegisterFinish(c)
Disconnect == \E c \in Live : Disconnection(c)
Rename(requests) ==
    \E c \in Live, data \in requests : RequestUpdateUsername(c, data)
Renamed == \E c \in ConnIds : UpdateUsernameWrite(c)
Chat(inputs, texts) ==
    \E c \in Live, data \in inputs, text \in texts :
        RequestChatMessage(c, data, text)
Resync == \E c \in Live : RequestStreamsync(c)
Ticks == \E r \in RoomNames : Tick(r)

Next ==
    \/ Connect(Urls)
    \/ Registered
    \/ Disconnect
    \/ Rename(UsernameRequests)
    \/ Renamed
    \/ Chat(ChatInputs, ResultTexts)
    \/ Resync
    \/ Ticks

Spec == Init /\ [][Next]_vars

\* the Client Registry: connections, disconnections and username requests
NextNames ==
    \/ Connect({UrlRoomX})
    \/ Registered
    \/ Disconnect
    \/ Rename(UsernameRequests)
    \/ Renamed

SpecNames == Init /\ [][NextNames]_vars

\* the same, every handler run to completion before the next one starts
NextSeq ==
    \/ AllIdle /\ Connect(Urls)
    \/ Registered
    \/ AllIdle /\ Disconnect
    \/ AllIdle /\ Rename(UsernameRequests)
    \/ Renamed

SpecSeq == Init /\ [][NextSeq]_vars

\* rooms: connections to two rooms, streams loaded, resync requests
LoadInputs == {TextMessage(Slash \o CmdLoad \o <<" ", "s">>)}
NextRooms ==
    \/ Connect(Urls)
    \/ Registered
    \/ Disconnect
    \/ Chat(LoadInputs, {""})
    \/ Resync

SpecRooms == Init /\ [][NextRooms]_vars

\* chat messages and commands
TalkTexts ==
    {<<>>, <<"h", "i">>, Slash, Slash \o CmdPlay, Slash \o CmdPause,
     <<"/", "n", "o">>}
TalkInputs ==
    {TextMessage(t) : t \in TalkTexts} \cup {MissingMessage, NonStringMessage}
NextChat ==
    \/ Connect(Urls)
    \/ Registered
    \/ Disconnect
    \/ Chat(TalkInputs, ResultTexts)

SpecChat == Init /\ [][NextChat]_vars

\* one room, its commands and its tick loop
PlaybackTexts ==
    {Slash \o CmdLoad \o <<" ", "s">>, Slash \o CmdPlay, Slash \o CmdPause,
     Slash \o CmdSeek \o <<" ", "2", "9">>}
PlaybackInputs == {TextMessage(t) : t \in PlaybackTexts}
NextPlayback ==
    \/ Connect({UrlRoomX})
    \/ Registered
    \/ Disconnect
    \/ Chat(PlaybackInputs, {""})
    \/ Ticks

SpecPlayback == Init /\ [][NextPlayback]_vars

\* events of a connection that arrive when its client is registered no
\* more: the handlers' lookups in the registry fail
Gone == {c \in ConnIds : conn[c] = "closed"}
StaleRequests == {[has |-> TRUE, user |-> "bob"]}
StaleInputs == {TextMessage(<<"h", "i">>)}
StaleDisconnect == \E c \in Gone : Disconnection(c)
StaleRename(requests) ==
    \E c \in Gone, data \in requests : RequestUpdateUsername(c, data)
StaleChat(inputs) ==
    \E c \in Gone, data \in inputs : RequestChatMessage(c, data, "")
StaleResync == \E c \in Gone : RequestStreamsync(c)

NextStale ==
    \/ Connect({UrlRoomX})
    \/ Registered
    \/ Disconnect
    \/ Rename(StaleRequests)
    \/ Renamed
    \/ Resync
    \/ StaleDisconnect
    \/ StaleRename(StaleRequests)
    \/ StaleChat(StaleInputs)
    \/ StaleResync

SpecStale == Init /\ [][NextStale]_vars

\* connections with every kind of request URL
NextUrls ==
    \/ Connect(RequestUrls)
    \/ Registered
    \/ Disconnect

SpecUrls == Init /\ [][NextUrls]_vars

\* commands whose tokens are set apart by one space, by two, and with a
\* space before the first token or after the last
TokenTexts ==
    {Slash \o CmdLoad \o <<" ", "s">>,
     Slash \o CmdLoad \o <<" ", " ", "s">>,
     Slash \o <<" ">> \o CmdPlay,
     Slash \o CmdPause \o <<" ">>,
     Slash \o CmdPlay}
TokenInputs == {TextMessage(t) : t \in TokenTexts}
NextTokens ==
    \/ Connect({UrlRoomX})
    \/ Registered
    \/ Disconnect
    \/ Chat(TokenInputs, {""})

SpecTokens == Init /\ [][NextTokens]_vars

\* of the tick loops, the ticks that reach a multiple of the cadence: the
\* ticks whose callback broadcasts
ResyncTicks ==
    \E r \in RoomNames :
        /\ TickAdvance(playbacks[r].pos) % ROOM_DEFAULT_STREAMSYNC_RATE = 0
        /\ Tick(r)

\* two rooms: joining, leaving, usernames, chat, a playing stream
IsolationRequests == {[has |-> TRUE, user |-> "bob"]}
IsolationTexts ==
    {<<"h", "i">>, Slash \o CmdLoad \o <<" ", "s">>, Slash \o CmdPlay,
     Slash \o CmdSeek \o <<" ", "2", "9">>}
IsolationInputs == {TextMessage(t) : t \in IsolationTexts}
NextIsolation ==
    \/ Connect(Urls)
    \/ Registered
    \/ Disconnect
    \/ Rename(IsolationRequests)
    \/ Renamed
    \/ Chat(IsolationInputs, {""})
    \/ ResyncTicks

SpecIsolation == Init /\ [][NextIsolation]_vars

(***************************************************************************)
(* Properties.                                                             *)
(***************************************************************************)
Requested == last.data.text[1]
OthersHolding(name) ==
    {d \in clients \ {last.c} : username[d] = name}

\* C1: two registered clients that race a username request for the same
\* unused name never both succeed: no two registered clients whose last
\* request succeeded hold the same name.
C1_NeverBothSucceed ==
    \A c, d \in clients :
        c # d /\ result[c] = "ok" /\ result[d] = "ok"
            => username[c] # username[d]

\* C2: with every handler run to completion, no two registered clients hold
\* the same non-empty username; a request for a name another registered
\* client holds fails as taken and leaves that client its name, and a
\* request that passes the scan or succeeds asks for a name no other
\* registered client holds.
C2_UniqueUsernames ==
    /\ \A c, d \in clients :
        c # d /\ username[c] # "" => username[c] # username[d]
    /\ last.op = "updateusername" /\ last.outcome = ErrUsernameTaken
        => /\ OthersHolding(Requested) # {}
           /\ username[last.c] # Requested
    /\ last.op = "updateusername" /\ last.outcome \in {"scanned", "ok"}
        => OthersHolding(Requested) = {}

\* c2 asked for "bob", which c holds: the request failed and c keeps "bob"
C2_Witness ==
    /\ last.op = "updateusername"
    /\ last.outcome = ErrUsernameTaken
    /\ Requested = "bob"
    /\ \E c \in clients : c # last.c /\ username[c] = "bob" /\ result[c] = "ok"

InRoom(r) == {d \in clients : room[d] = r}
Cadence(pos) == pos % ROOM_DEFAULT_STREAMSYNC_RATE = 0

\* C3: every tick period adds exactly one to the position of a room, none
\* is lost or counted twice, whatever commands the clients of the room
\* execute between the ticks: the position is the position last set (by the
\* creation of the state, a load or a seek) plus the ticks since.
C3_TicksCounted ==
    \A r \in RoomNames :
        playbacks[r].exists
            => playbacks[r].pos = hist[r].base + hist[r].ticks

\* a command was executed in a playing room between its ticks
C3_Witness ==
    /\ last.op = "chatmessage"
    /\ last.outcome = "command"
    /\ playbacks[last.r].playing
    /\ hist[last.r].ticks >= 2
    /\ hist[last.r].base = 29

\* C5: the tick callback of a room emits a streamsync on a tick if and
\* only if the new position is a multiple of the default cadence of 30, and
\* a tick emits nothing else.
C5_ResyncCadence ==
    last.op = "tick"
        => /\ Emitted("streamsync") <=> Cadence(playbacks[last.r].pos)
           /\ \A i \in 1..Len(out) : out[i].evt = "streamsync"

\* the tick to position 60 emitted a streamsync
C5_Witness ==
    /\ last.op = "tick"
    /\ playbacks[last.r].pos = 2 * ROOM_DEFAULT_STREAMSYNC_RATE
    /\ Emitted("streamsync")

C4_SingleCallback ==
    \A r \in RoomNames :
        playbacks[r].exists => Len(playbacks[r].callbacks) = 1

\* C7: when a chat command fails (the message cannot be parsed, the command
\* is unknown or its execution fails) the handler makes one call, a system
\* message with the failure text delivered to the sender only, and nothing
\* is broadcast as a chatmessage.
C7_FailureToSenderOnly ==
    last.op = "chatmessage" /\ last.outcome \in {"parse error", "command error"}
        => /\ Len(out) = 1
           /\ out[1].kind = "system"
           /\ out[1].text # ""
           /\ out[1].rcpts = {last.c}
           /\ AllReceivers = {last.c}
           /\ ~Emitted("chatmessage")

\* /play with nothing loaded, with another client in the sender's room
C7_Witness ==
    /\ last.op = "chatmessage"
    /\ last.outcome = "command error"
    /\ last.name = CmdPlay
    /\ out[1].text = ErrNoActiveStream
    /\ InRoom(last.r) \ {last.c} # {}

\* a text is a command iff its first character is the marker
IsCommandText(t) == Len(t) > 0 /\ t[1] = "/"

\* C8: a chat text that is no command is broadcast as one chatmessage to
\* every client of the sender's room, the sender included, and to nobody
\* else; a command is never broadcast as a chatmessage, and its result text
\* goes to the sender only, and only when it is not empty.
C8_ChatRouting ==
    last.op = "chatmessage" /\ last.data.kind = "text"
        => IF IsCommandText(last.data.text)
           THEN /\ ~Emitted("chatmessage")
                /\ AllReceivers \subseteq {last.c}
                /\ \A i \in 1..Len(out) : out[i].text # ""
           ELSE /\ Len(out) = 1
                /\ out[1].evt = "chatmessage"
                /\ out[1].rcpts = InRoom(last.r)
                /\ last.c \in out[1].rcpts

\* C9: a text whose first character is not the marker is classified as not
\* a command; "/play" is the command "play" with no arguments; "/" is an
\* invalid command format: an error, and no command is looked up for it.
C9_Detect ==
    last.op = "chatmessage" /\ last.data.kind = "text"
        => /\ Len(last.data.text) > 0 /\ last.data.text[1] # "/"
                => last.outcome = "chat" /\ ~last.isCommand
           /\ last.data.text = Slash \o CmdPlay
                => last.isCommand /\ last.name = CmdPlay /\ last.args = <<>>
           /\ last.data.text = Slash
                => last.outcome = "parse error" /\ ~last.isCommand

\* C10: RegisterClient sends a streamload if and only if its lookup found a
\* Playback State for the room and that state has a loaded stream when the
\* handler reads it; the event goes to the connecting client only and
\* carries the loaded stream; the steps before send none.
C10_CatchUp ==
    /\ last.op = "register"
        => /\ Emitted("streamload") <=> last.found /\ last.hadStream
           /\ \A i \in 1..Len(out) :
                /\ out[i].evt = "streamload"
                /\ out[i].rcpts = {last.c}
                /\ out[i].extra.stream = playbacks[last.r].stream
    /\ last.op = "lookup"
        => /\ ~Emitted("streamload")
           /\ ~last.found => ~last.hadStream

\* a client joined a room with a loaded stream and another client in it
C10_Witness ==
    /\ last.op = "register"
    /\ Receivers("streamload") = {last.c}
    /\ InRoom(last.r) \ {last.c} # {}

\* C11: the disconnection handler broadcasts info_clientleft if and only if
\* the client has a username; the event is sent once, from the client, with
\* its name, to the other clients of its room, while the registry still
\* holds the client (GetClient found it); when the handler has completed
\* the client is not registered.
C11_LeftThenDeregistered ==
    last.op = "disconnection" /\ last.outcome = ""
        => /\ Emitted("info_clientleft") <=> HasUsername(last.c)
           /\ Len(out) <= 1
           /\ \A i \in 1..Len(out) :
                /\ out[i].evt = "info_clientleft"
                /\ out[i].kind = "from"
                /\ out[i].by = last.c
                /\ out[i].text = username[last.c]
                /\ out[i].rcpts = InRoom(last.r)
           /\ last.c \notin clients

\* a client with a username left a room in which another client stays
C11_Witness ==
    /\ last.op = "disconnection"
    /\ HasUsername(last.c)
    /\ Receivers("info_clientleft") # {}
    /\ last.c \notin clients

UsernameErrors == {ErrInvalidUsername, ErrSameUsername, ErrUsernameTaken}

\* C12: a step in which a username request fails (the name is invalid, the
\* requester already has it, or another registered client holds it) leaves
\* the username of every client as it was and makes one broadcast call: the
\* error, as info_clienterror, delivered to the requester and nobody else;
\* no updateusername and no info_updateusername is emitted.
C12_FailedRenameNoEffect ==
    [][(last'.op = "updateusername" /\ last'.outcome \in UsernameErrors)
        => /\ username' = username
           /\ Len(out') = 1
           /\ out'[1].evt = "info_clienterror"
           /\ out'[1].text = last'.outcome
           /\ out'[1].rcpts = {last'.c}
           /\ \A i \in 1..Len(out') :
                out'[i].evt \notin {"updateusername", "info_updateusername"}]_vars

\* a client asked for the name it has, with another client in its room
C12_Witness ==
    /\ last.op = "updateusername"
    /\ last.outcome = ErrSameUsername
    /\ Receivers("info_clienterror") = {last.c}
    /\ InRoom(last.r) \ {last.c} # {}

NotFoundOutcomes == {"no client", "no room", "no playback"}

\* C13: a step of a handler whose lookup of the client or of the room's
\* Playback State finds nothing is a no-op: the handler does not panic, the
\* registry, the usernames, the rooms and the Playback States are what they
\* were, nobody receives an event, and the process goes on serving.
C13_NotFoundNoOp ==
    [][last'.outcome \in NotFoundOutcomes
        => /\ ~panicked'
           /\ clients' = clients
           /\ username' = username
           /\ room' = room
           /\ playbacks' = playbacks
           /\ AllReceivers' = {}]_vars

\* C14: a step of the request_streamsync handler for a registered client
\* that has a room makes one broadcast call: a streamsync that carries the
\* status of the room's Playback State and is delivered to the requester
\* and to nobody else; the step changes no Playback State.
C14_ResyncToRequester ==
    [][(last'.op = "streamsync" /\ last'.c \in clients /\ room[last'.c] # NoRoom)
        => /\ Len(out') = 1
           /\ out'[1].evt = "streamsync"
           /\ out'[1].extra = GetStatus(playbacks[room[last'.c]])
           /\ out'[1].rcpts = {last'.c}
           /\ AllReceivers' = {last'.c}
           /\ playbacks' = playbacks]_vars

\* a client asked for the status of a room with a loaded stream and
\* another client in it
C14_Witness ==
    /\ last.op = "streamsync"
    /\ Receivers("streamsync") = {last.c}
    /\ out[1].extra.stream = "S1"
    /\ InRoom(last.r) \ {last.c} # {}

\* C15: a Playback State with no loaded stream is paused at position 0, in
\* every reachable state, the state RegisterClient has just created
\* included; so a tick advances only a room that has a stream, and the
\* periodic streamsync is emitted only for a room that has a stream.
C15_StreamlessIsQuiescent ==
    /\ \A r \in RoomNames :
        playbacks[r].exists /\ playbacks[r].stream = NoStream
            => /\ ~playbacks[r].playing
               /\ playbacks[r].pos = 0
               /\ hist[r].ticks = 0
    /\ last.op = "tick"
        => /\ last.hadStream
           /\ playbacks[last.r].stream # NoStream

\* play and seek were tried in a room with no stream: it is still paused at 0
C15_Witness ==
    /\ last.op = "chatmessage"
    /\ last.name = CmdSeek
    /\ last.outcome = "command error"
    /\ GetStatus(playbacks[last.r]) =
            [stream |-> NoStream, pos |-> 0, playing |-> FALSE]

\* C16: in a room whose Playback State has no loaded stream, the command
\* play fails with the no-active-stream error, reported to the sender, and
\* pause succeeds; both leave every Playback State as it was, so the room
\* stays paused and streamless.
C16_PlayPauseStreamless ==
    [][(/\ last'.op = "chatmessage"
        /\ last'.isCommand
        /\ playbacks[last'.r].exists
        /\ playbacks[last'.r].stream = NoStream)
        => /\ last'.name = CmdPlay
                => /\ last'.outcome = "command error"
                   /\ Len(out') = 1
                   /\ out'[1].text = ErrNoActiveStream
                   /\ playbacks' = playbacks
           /\ last'.name = CmdPause
                => /\ last'.outcome = "command"
                   /\ playbacks' = playbacks
                   /\ ~playbacks'[last'.r].playing
                   /\ playbacks'[last'.r].stream = NoStream]_vars

\* pause succeeded in a room with no stream
C16_Witness ==
    /\ last.op = "chatmessage"
    /\ last.name = CmdPause
    /\ last.outcome = "command"
    /\ playbacks[last.r].stream = NoStream
    /\ ~playbacks[last.r].playing

\* what follows the first "/v/" of a URL, empty when there is no "/v/"
RoomSegment(url) ==
    LET j == Index(url, ROOM_URL_SEGMENT)
    IN  IF j = 0
        THEN <<>>
        ELSE SubSeq(url, j + Len(ROOM_URL_SEGMENT), Len(url))

\* C17: a connecting client joins the room named by the segment that
\* follows "/v/" in its request URL, and the lobby when the URL has no
\* "/v/" or nothing after it; so no registered client is in a room with an
\* empty name.
C17_RoomFromUrl ==
    /\ \A c \in clients : room[c] # <<>>
    /\ last.op = "lookup"
        => room[last.c] = IF RoomSegment(last.data.text) = <<>>
                          THEN ROOM_DEFAULT_LOBBY
                          ELSE RoomSegment(last.data.text)

\* the tokens of a text: its maximal runs of characters that are no space
RECURSIVE Fields(_)
Fields(s) ==
    IF s = <<>>
    THEN <<>>
    ELSE IF Head(s) = " "
    THEN Fields(Tail(s))
    ELSE LET j == Index(s, <<" ">>)
         IN  IF j = 0
             THEN <<s>>
             ELSE <<SubSeq(s, 1, j - 1)>> \o Fields(SubSeq(s, j + 1, Len(s)))

\* C18: for a chat message that is a command, the name handed to
\* ExecuteCommand is the first token of the text after the marker and the
\* arguments are the remaining tokens, in order: the name is not empty and
\* no argument is empty, however many spaces stand between, before or after
\* the tokens.
C18_CommandTokens ==
    last.op = "chatmessage" /\ last.isCommand
        => /\ last.name # <<>>
           /\ \A i \in 1..Len(last.args) : last.args[i] # <<>>
           /\ <<last.name>> \o last.args = Fields(Tail(last.data.text))

\* C19: the Playback State of a room outlives its clients.  No step removes
\* a state; a disconnection leaves every state (stream, position, play flag
\* and callbacks) as it was; the lookup of a client that connects to a room
\* that has a state finds it, and the rest of its RegisterClient creates
\* no state, registers no callback and sends the client the streamload
\* of the loaded stream, if there is one.
C19_RoomOutlivesClients ==
    [][/\ \A r \in RoomNames : playbacks[r].exists => playbacks'[r].exists
       /\ last'.op = "disconnection" => playbacks' = playbacks
       /\ last'.op = "lookup"
            => /\ playbacks' = playbacks
               /\ playbacks[last'.r].exists => last'.found
       /\ last'.op = "register" /\ last'.found
            => /\ playbacks' = playbacks
               /\ Emitted("streamload")' <=> playbacks[last'.r].stream # NoStream
               /\ Receivers("streamload")' \subseteq {last'.c}]_vars

\* the client that created the room's state and loaded a stream has left;
\* a client that connected afterwards, alone in the room, got the streamload
C19_Witness ==
    /\ last.op = "register"
    /\ last.found
    /\ InRoom(last.r) = {last.c}
    /\ Receivers("streamload") = {last.c}
    /\ playbacks[last.r].stream = "S1"
    /\ playbacks[last.r].callbacks = <<1>>
    /\ 1 \notin clients

\* C20: rooms are isolated.  Every event of a step (info_clientjoined,
\* info_clientleft, chatmessage, updateusername and info_updateusername,
\* system messages, the periodic streamsync) is delivered only to clients
\* whose room is the room of the step, that is the room of the client whose
\* handler ran or the room that ticked; and the step leaves the Playback
\* State of every other room as it was.
C20_RoomsIsolated ==
    [][/\ \A i \in 1..Len(out') :
            \A d \in out'[i].rcpts : room'[d] = last'.r
       /\ \A r \in RoomNames \ {last'.r} : playbacks'[r] = playbacks[r]]_vars

\* a room ticked to a multiple of the cadence: its client received the
\* streamsync while a client of another room, whose stream is also loaded,
\* is registered
C20_Witness ==
    /\ last.op = "tick"
    /\ Receivers("streamsync") # {}
    /\ \E d \in clients :
        /\ room[d] # last.r
        /\ playbacks[room[d]].stream # NoStream
        /\ HasUsername(d)

====
